---- MODULE Spec2Model ----
(***************************************************************************)
(* Model of the lsh shell (src/code/lsh.c): the prompt loop of main, the   *)
(* built-ins, execute_cmd / execute_pipeline, the children they fork, and  *)
(* the SIGCHLD handler.                                                    *)
(*                                                                         *)
(* A descriptor is a pair <<kind, id>>: <<"r", id>> and <<"w", id>> are    *)
(* the read and the write end of the pipe object id; TTY is the inherited  *)
(* terminal; INFILE / OUTFILE are the opened redirection files.            *)
(***************************************************************************)
EXTENDS Integers, Sequences, FiniteSets, TLC

\* ------------------------------------------------------------------ bounds
MaxStages == 3
MaxForks == 3

\* ------------------------------------------------------------------ inputs
NULL == "NULL"

Pids == 1..MaxForks

\* The programs that execvp finds; any other name makes execvp fail.
Executables == {"ls"}

\* Argument vectors a stage may have.
Argvs ==
  { <<"ls">>, <<"nosuch">>,
    <<"cd">>, <<"cd", "/tmp">>, <<"cd", "/tmp", "/x">>,
    <<"exit">>, <<"exit", "1">> }

\* Command as filled by parse(): pgm is the REVERSED list of stages (pgm[1]
\* is the last stage typed), rstdin / rstdout are paths or NULL.
Command(p, i, o, b) ==
  [pgm |-> p, rstdin |-> i, rstdout |-> o, background |-> b]

\* ls | ... | ls  in the foreground with every combination of redirection,
\* and in the background.
PlainCommands ==
  { Command([k \in 1..n |-> <<"ls">>], i, o, FALSE) :
      n \in 1..MaxStages, i \in {NULL, "in.txt"}, o \in {NULL, "out.txt"} }
  \cup { Command([k \in 1..n |-> <<"ls">>], NULL, NULL, TRUE) :
           n \in 1..MaxStages }

\* Lines whose last stage is a built-in name or an unknown program, alone
\* or behind one ls; and  cd | ls,  cd /tmp | ls,  exit | ls  with the
\* built-in name in an earlier stage.
BuiltinCommands ==
  { Command(<<a>>, NULL, NULL, FALSE) : a \in Argvs }
  \cup { Command(<<a, <<"ls">> >>, NULL, NULL, FALSE) : a \in Argvs }
  \cup { Command(<< <<"ls">>, a >>, NULL, NULL, FALSE) :
           a \in { <<"cd">>, <<"cd", "/tmp">>, <<"exit">> } }

\* The lines the user types.
Commands == PlainCommands \cup BuiltinCommands

NoCmd == [pgm |-> << <<"none">> >>, rstdin |-> NULL, rstdout |-> NULL,
          background |-> FALSE]

\* ------------------------------------------------------------- descriptors
TTY == <<"tty", 0>>
INFILE == <<"rstdin", 0>>
OUTFILE == <<"rstdout", 0>>

\* The pipe objects the kernel can hand out.
PipeIds == 1..(MaxForks * MaxStages)

\* C's 0-based  pipefds[i].
At(arr, i) == arr[i + 1]

\* Mutant of PipefdsOf: every pipe() call is given the same pair of slots
\* (pipe(pipefds) instead of pipe(pipefds + 2 * i)), so the whole array
\* refers to one pipe.
PipefdsOneSlot(ids) ==
  [i \in 1..(2 * Len(ids)) |->
     IF i % 2 = 1 THEN <<"r", ids[Len(ids)]>> ELSE <<"w", ids[Len(ids)]>>]

\* The array pipefds after pipe(pipefds + 2 * i) stored pipe ids[i + 1] for
\* every i < Len(ids): the read end at 2i, the write end at 2i + 1.
PipefdsOf(ids) ==
  [i \in 1..(2 * Len(ids)) |->
     IF i % 2 = 1 THEN <<"r", ids[(i + 1) \div 2]>>
     ELSE <<"w", ids[i \div 2]>>]

\* The descriptors  pipefds[0 .. k-1].
Slots(arr, k) == { arr[i] : i \in 1..k }

\* --------------------------------------------------------------- processes
\* The session calls fork() at most MaxForks times; the pid a successful
\* call returns is the number of the call, so pids are never reused.
\* A child: st is none / forked (between fork and execvp) / exec (running
\* its program) / zombie.  job is the pid of the first child forked
\* for its pipeline; idx, n, background, rstdin, rstdout, argv and pipefds
\* are the child's copies of cmd_idx, num_cmds, cmd->background,
\* cmd->rstdin, cmd->rstdout, p->pgmlist and pipefds.  in / out are
\* descriptors 0 and 1, fds the other open pipe descriptors.
\* A reaped child is gone: its slot is NoProc again.
NoProc == [st |-> "none", job |-> 0, idx |-> 0, n |-> 0,
           background |-> FALSE, rstdin |-> NULL, rstdout |-> NULL,
           argv |-> <<"none">>, pipefds |-> <<>>,
           sigint |-> "none", in |-> TTY, out |-> TTY, fds |-> {},
           status |-> 0]

VARIABLES
  pc,          \* where the shell process is
  pending,     \* a SIGCHLD is pending for the shell
  shSigint,    \* the shell's SIGINT disposition
  shSigchld,   \* the shell's SIGCHLD disposition
  cmd,         \* the Command being executed
  num_cmds,    \* execute_cmd: number of stages
  npipes,      \* execute_cmd: pipes created
  cmd_idx,     \* execute_pipeline: index of the next frame to fork
  waited,      \* execute_cmd: wait() calls that have returned
  job,         \* pid of the first child forked for this pipeline, or 0
  pipefds,     \* execute_cmd: the array of pipe descriptors
  shellFds,    \* pipe descriptors open in the shell
  proc,        \* the process table: pid -> record of that child
  cwd,         \* the shell's working directory
  exitStatus,  \* the shell's exit status once pc = "exited"
  err,         \* the last message the shell wrote to stderr for this line
  ret,         \* what check_built_ins returned for this line
  reaps,       \* the children the last step reaped, and the call that did
  nextPid,     \* the number of the next fork() call: the pid it returns
  line         \* main: the Command parse() filled in this iteration

vars == <<pc, pending, shSigint, shSigchld, cmd, num_cmds, npipes,
          cmd_idx, waited, job, pipefds, shellFds, proc, cwd, exitStatus,
          err, ret, reaps, nextPid, line>>

\* The locals of execute_cmd / execute_pipeline.
locals == <<cmd, num_cmds, npipes, cmd_idx, waited, job, pipefds>>

Init ==
  /\ pc = "start"
  /\ pending = FALSE
  /\ shSigint = "default"
  /\ shSigchld = "default"
  /\ cmd = NoCmd
  /\ num_cmds = 0
  /\ npipes = 0
  /\ cmd_idx = 0
  /\ waited = 0
  /\ job = 0
  /\ pipefds = <<>>
  /\ shellFds = {}
  /\ proc = [p \in Pids |-> NoProc]
  /\ cwd = "/home"
  /\ exitStatus = -1
  /\ err = "none"
  /\ ret = 0
  /\ reaps = {}
  /\ nextPid = 1
  /\ line = NoCmd

Zombies == { p \in Pids : proc[p].st = "zombie" }
\* Children wait() can still report: alive or terminated, not yet reaped.
Unreaped == { p \in Pids : proc[p].st \in {"forked", "exec", "zombie"} }

\* The note of a reaping: the child, whether it was forked for a
\* background command, the call (wait, handler, drain) that retired it, and
\* whether it belongs to the pipeline execute_cmd is running.
Reaping(p, who) ==
  [pid |-> p, background |-> proc[p].background, by |-> who,
   current |-> (job # 0 /\ proc[p].job = job)]

\* wait retiring the zombie z.
Reap(z) == [proc EXCEPT ![z] = NoProc]

\* while (waitpid(-1, NULL, WNOHANG) > 0);  run to its end: every child
\* that has terminated is retired.
ReapAll == [p \in Pids |-> IF p \in Zombies THEN NoProc ELSE proc[p]]

\* The descriptors a process holds.
Holds(r) == r.fds \cup {r.in, r.out}

\* The pipe objects still open somewhere.
UsedPipes ==
  { d[2] : d \in shellFds \cup UNION { Holds(proc[p]) : p \in Pids } }
FreePipes == PipeIds \ UsedPipes

\* The k pipe objects that k calls of pipe() create.
NewPipes(k) ==
  [i \in 1..k |->
     CHOOSE x \in FreePipes : Cardinality({y \in FreePipes : y < x}) = i - 1]

\* execute_cmd has returned to main: its locals are gone.
Returned ==
  /\ cmd' = NoCmd
  /\ num_cmds' = 0
  /\ npipes' = 0
  /\ cmd_idx' = 0
  /\ waited' = 0
  /\ job' = 0
  /\ pipefds' = <<>>

\* ------------------------------------------------------------------- main
\* Mutant of MainSignals: the line signal(SIGINT, SIG_IGN) is missing.
MainSignalsHandlerOnly ==
  /\ pc = "start"
  /\ shSigint' = shSigint
  /\ shSigchld' = "handler"
  /\ pc' = "drain"
  /\ UNCHANGED <<pending, locals, shellFds, proc, cwd, exitStatus,
                 err, ret>>
  /\ reaps' = {}
  /\ UNCHANGED <<nextPid, line>>

\* signal(SIGINT, SIG_IGN); signal(SIGCHLD, sigchld_handler);
MainSignals ==
  /\ pc = "start"
  /\ shSigint' = "ignore"
  /\ shSigchld' = "handler"
  /\ pc' = "drain"
  /\ UNCHANGED <<pending, locals, shellFds, proc, cwd, exitStatus,
                 err, ret>>
  /\ reaps' = {}
  /\ UNCHANGED <<nextPid, line>>

\* Top of the loop: the drain  while (waitpid(-1, NULL, WNOHANG) > 0);
\* and then the call of readline("lsh> ").
Drain ==
  /\ pc = "drain"
  /\ proc' = ReapAll
  /\ reaps' = { Reaping(z, "drain") : z \in Zombies }
  /\ pc' = "readline"
  /\ err' = "none"
  /\ ret' = 0
  /\ UNCHANGED <<pending, shSigint, shSigchld, locals, shellFds,
                 cwd, exitStatus>>
  /\ UNCHANGED nextPid
  /\ line' = NoCmd

\* --------------------------------------------------------- check_built_ins
\* Mutant of check_built_ins: a failed chdir() returns -1 after perror, as
\* the usage errors do.
check_built_ins_ChdirFailMinus1(current_pgm, argc, chdirOk) ==
  IF current_pgm[1] = "cd"
  THEN IF argc > 2
       THEN [ret |-> -1, cwd |-> cwd, err |-> "cd: too many arguments",
             exits |-> FALSE]
       ELSE IF Len(current_pgm) < 2
       THEN [ret |-> 0, cwd |-> cwd, err |-> "cd : missing argument",
             exits |-> FALSE]
       ELSE IF chdirOk
       THEN [ret |-> 0, cwd |-> current_pgm[2], err |-> "none",
             exits |-> FALSE]
       ELSE [ret |-> -1, cwd |-> cwd, err |-> "cd: perror", exits |-> FALSE]
  ELSE IF current_pgm[1] = "exit"
  THEN IF argc > 1
       THEN [ret |-> -1, cwd |-> cwd, err |-> "exit: too many arguments",
             exits |-> FALSE]
       ELSE [ret |-> 0, cwd |-> cwd, err |-> "none", exits |-> TRUE]
  ELSE [ret |-> 1, cwd |-> cwd, err |-> "none", exits |-> FALSE]

\* check_built_ins(current_pgm, argc); chdirOk is whether chdir() succeeds.
\* Result: the return value, the working directory afterwards, the message
\* written to stderr, and whether exit(0) was called instead of returning.
check_built_ins(current_pgm, argc, chdirOk) ==
  IF current_pgm[1] = "cd"
  THEN IF argc > 2
       THEN [ret |-> -1, cwd |-> cwd, err |-> "cd: too many arguments",
             exits |-> FALSE]
       ELSE IF Len(current_pgm) < 2
       THEN [ret |-> 0, cwd |-> cwd, err |-> "cd : missing argument",
             exits |-> FALSE]
       ELSE IF chdirOk
       THEN [ret |-> 0, cwd |-> current_pgm[2], err |-> "none",
             exits |-> FALSE]
       ELSE [ret |-> 0, cwd |-> cwd, err |-> "cd: perror", exits |-> FALSE]
  ELSE IF current_pgm[1] = "exit"
  THEN IF argc > 1
       THEN [ret |-> -1, cwd |-> cwd, err |-> "exit: too many arguments",
             exits |-> FALSE]
       ELSE [ret |-> 0, cwd |-> cwd, err |-> "none", exits |-> TRUE]
  ELSE [ret |-> 1, cwd |-> cwd, err |-> "none", exits |-> FALSE]

\* Mutant of RunsPipeline: the return value of check_built_ins is not
\* tested.
RunsPipelineUntested(r) == TRUE

\* execute_cmd's test of that return value: TRUE when the pipeline is run.
RunsPipeline(r) == r # 0

\* --------------------------------------------------------------- readline
\* readline() returned NULL: print "exit", leave the loop, return 0.
ReadEOF ==
  /\ pc = "readline"
  /\ pc' = "exited"
  /\ exitStatus' = 0
  /\ UNCHANGED <<pending, shSigint, shSigchld, locals, shellFds, proc,
                 cwd, err, ret>>
  /\ reaps' = {}
  /\ UNCHANGED <<nextPid, line>>

\* A blank line, or a line parse() rejects: back to the top of the loop.
ReadBlank ==
  /\ pc = "readline"
  /\ pc' = "drain"
  /\ UNCHANGED <<pending, shSigint, shSigchld, locals, shellFds, proc,
                 cwd, exitStatus, err, ret>>
  /\ reaps' = {}
  /\ UNCHANGED <<nextPid, line>>

\* A parsed line: execute_cmd up to and including the num_cmds count.
ReadCommand ==
  /\ pc = "readline"
  /\ UNCHANGED nextPid
  /\ \E c \in Commands, chdirOk \in BOOLEAN :
       LET argc == Len(c.pgm[1])
           b == check_built_ins(c.pgm[1], argc, chdirOk)
           n == Len(c.pgm)
       IN /\ line' = c
          /\ (chdirOk = FALSE => (c.pgm[1][1] = "cd" /\ argc = 2))
          /\ (RunsPipeline(b.ret) /\ ~b.exits => nextPid + n - 1 <= MaxForks)
          /\ err' = b.err
          /\ ret' = b.ret
          /\ cwd' = b.cwd
          /\ IF b.exits
             THEN /\ pc' = "exited"
                  /\ exitStatus' = 0
                  /\ UNCHANGED locals
             ELSE IF RunsPipeline(b.ret)
             THEN /\ cmd' = c
                  /\ num_cmds' = n
                  /\ cmd_idx' = n - 1
                  /\ pc' = IF n > 1 THEN "pipes" ELSE "spawn"
                  /\ UNCHANGED <<npipes, waited, job, pipefds, exitStatus>>
             ELSE /\ pc' = "drain"
                  /\ UNCHANGED <<locals, exitStatus>>
  /\ UNCHANGED <<pending, shSigint, shSigchld, shellFds, proc>>
  /\ reaps' = {}

\* ------------------------------------------------------------ execute_cmd
\* The loop  for (i = 0; i < num_cmds - 1; i++) pipe(pipefds + 2 * i)
\* with every pipe() succeeding.
CreatePipes ==
  /\ pc = "pipes"
  /\ pipefds' = PipefdsOf(NewPipes(num_cmds - 1))
  /\ shellFds' = shellFds \cup Slots(pipefds', 2 * (num_cmds - 1))
  /\ npipes' = num_cmds - 1
  /\ pc' = "spawn"
  /\ UNCHANGED <<pending, shSigint, shSigchld, cmd, num_cmds, cmd_idx,
                 waited, job, proc, cwd, exitStatus, err, ret>>
  /\ reaps' = {}
  /\ UNCHANGED <<nextPid, line>>

\* Mutant of PipeFail: perror("pipe"); return -1;  instead of exit(1).
PipeFailReturns ==
  /\ pc = "pipes"
  /\ \E k \in 0..(num_cmds - 2) :
       shellFds' = shellFds \cup Slots(PipefdsOf(NewPipes(k)), 2 * k)
  /\ err' = "pipe: perror"
  /\ pc' = "drain"
  /\ Returned
  /\ UNCHANGED <<pending, shSigint, shSigchld, proc, cwd, exitStatus, ret>>
  /\ reaps' = {}
  /\ UNCHANGED <<nextPid, line>>

\* The same loop with the pipe() of iteration k failing:
\* perror("pipe"); exit(1).
PipeFail ==
  /\ pc = "pipes"
  /\ \E k \in 0..(num_cmds - 2) :
       /\ pipefds' = PipefdsOf(NewPipes(k))
       /\ shellFds' = shellFds \cup Slots(pipefds', 2 * k)
       /\ npipes' = k
  /\ err' = "pipe: perror"
  /\ pc' = "exited"
  /\ exitStatus' = 1
  /\ UNCHANGED <<pending, shSigint, shSigchld, cmd, num_cmds, cmd_idx,
                 waited, job, proc, cwd, ret>>
  /\ reaps' = {}
  /\ UNCHANGED <<nextPid, line>>

\* ------------------------------------------------------- execute_pipeline
\* The recursion reaches the end of the list first and forks while it
\* unwinds: frame cmd_idx = num_cmds-1 (the first stage typed) forks first,
\* frame 0 (the last stage typed) forks last.  A frame's return value is
\* ignored by its caller, so after any fork the next frame still forks.
AfterFork == IF cmd_idx = 0 THEN "close" ELSE "spawn"

\* The child as fork() creates it: a copy of the shell's descriptors, signal
\* dispositions and memory (cmd, p, cmd_idx, num_cmds, pipefds).
ForkedChild ==
  [st |-> "forked", job |-> IF job = 0 THEN nextPid ELSE job,
   idx |-> cmd_idx, n |-> num_cmds,
   background |-> cmd.background, rstdin |-> cmd.rstdin,
   rstdout |-> cmd.rstdout, argv |-> cmd.pgm[cmd_idx + 1],
   pipefds |-> pipefds, sigint |-> shSigint, in |-> TTY, out |-> TTY,
   fds |-> shellFds, status |-> 0]

\* fork() returned a pid > 0 in the shell.
Fork ==
  /\ pc = "spawn"
  /\ proc' = [proc EXCEPT ![nextPid] = ForkedChild]
  /\ job' = IF job = 0 THEN nextPid ELSE job
  /\ cmd_idx' = IF cmd_idx = 0 THEN 0 ELSE cmd_idx - 1
  /\ pc' = AfterFork
  /\ UNCHANGED <<pending, shSigint, shSigchld, cmd, num_cmds, npipes,
                 waited, pipefds, shellFds, cwd, exitStatus, err, ret>>
  /\ reaps' = {}
  /\ nextPid' = nextPid + 1
  /\ UNCHANGED line

\* fork() returned -1: perror("Fork failed"); return -1 from this frame.
ForkFail ==
  /\ pc = "spawn"
  /\ err' = "Fork failed: perror"
  /\ cmd_idx' = IF cmd_idx = 0 THEN 0 ELSE cmd_idx - 1
  /\ pc' = AfterFork
  /\ UNCHANGED <<pending, shSigint, shSigchld, cmd, num_cmds, npipes,
                 waited, job, pipefds, shellFds, proc, cwd, exitStatus,
                 ret>>
  /\ reaps' = {}
  /\ nextPid' = nextPid + 1
  /\ UNCHANGED line

\* execute_cmd after execute_pipeline: close every pipefds[i] in the shell,
\* then return at once for a background command or start the wait loop.
CloseParent ==
  /\ pc = "close"
  /\ shellFds' = shellFds \ Slots(pipefds, 2 * (num_cmds - 1))
  /\ IF cmd.background
     THEN pc' = "drain" /\ Returned
     ELSE pc' = "wait" /\ UNCHANGED locals
  /\ UNCHANGED <<pending, shSigint, shSigchld, proc, cwd,
                 exitStatus, err, ret>>
  /\ reaps' = {}
  /\ UNCHANGED <<nextPid, line>>

\* The children a wait(NULL) of the foreground loop may retire.
WaitCandidates == Zombies

\* One wait() of  for (i = 0; i < num_cmds; i++) wait(NULL);  has returned.
WaitReturned ==
  IF waited + 1 < num_cmds
  THEN pc' = "wait" /\ waited' = waited + 1
                    /\ UNCHANGED <<cmd, num_cmds, npipes, cmd_idx, job,
                                   pipefds>>
  ELSE pc' = "drain" /\ Returned

\* wait(NULL) returned the pid of a terminated child.
WaitReap ==
  /\ pc = "wait"
  /\ \E z \in WaitCandidates : /\ proc' = Reap(z)
                               /\ reaps' = {Reaping(z, "wait")}
  /\ WaitReturned
  /\ UNCHANGED <<pending, shSigint, shSigchld, shellFds, cwd,
                 exitStatus, err, ret>>
  /\ UNCHANGED <<nextPid, line>>

\* wait(NULL) returned -1 with ECHILD: the shell has no child left.
WaitNoChild ==
  /\ pc = "wait"
  /\ Unreaped = {}
  /\ WaitReturned
  /\ UNCHANGED <<pending, shSigint, shSigchld, shellFds, proc, cwd,
                 exitStatus, err, ret>>
  /\ reaps' = {}
  /\ UNCHANGED <<nextPid, line>>

\* -------------------------------------------------------- sigchld_handler
ShellRuns == pc \notin {"start", "exited"}

\* The pending SIGCHLD is delivered wherever the shell is (an interrupted
\* wait() or readline() is resumed afterwards) and sigchld_handler runs to
\* its end:  while (waitpid(-1, NULL, WNOHANG) > 0);
sigchld_handler ==
  /\ ShellRuns /\ shSigchld = "handler"
  /\ pending
  /\ pending' = FALSE
  /\ proc' = ReapAll
  /\ reaps' = { Reaping(z, "handler") : z \in Zombies }
  /\ UNCHANGED <<pc, shSigint, shSigchld, locals, shellFds, cwd,
                 exitStatus, err, ret>>
  /\ UNCHANGED <<nextPid, line>>

\* ------------------------------------------- the child (pid == 0 branch)
\* Mutant of ChildSigint: the test of cmd->background is missing.
ChildSigintDefault(r) == "default"

\* The child is followed while the shell process exists.
\* if (!cmd->background) signal(SIGINT, SIG_DFL);
ChildSigint(r) == IF ~r.background THEN "default" ELSE r.sigint

\* Mutant of OpensInput: the test of cmd_idx is missing.
OpensInputAnyStage(r) == r.rstdin # NULL

\* The child opens cmd->rstdin: first stage typed, with input redirection.
OpensInput(r) == r.idx = r.n - 1 /\ r.rstdin # NULL
\* The child opens cmd->rstdout: last stage typed, with output redirection.
OpensOutput(r) == r.idx = 0 /\ r.rstdout # NULL

\* Mutant of ChildStdin: the pipe is indexed by the stage as typed, not by
\* the position in the reversed list.
ChildStdinTypedOrder(r) ==
  IF OpensInput(r) THEN INFILE
  ELSE IF r.idx < r.n - 1 THEN At(r.pipefds, 2 * (r.n - 2 - r.idx))
  ELSE r.in

\* What descriptor 0 refers to after the input branch (open succeeded).
ChildStdin(r) ==
  IF OpensInput(r) THEN INFILE
  ELSE IF r.idx < r.n - 1 THEN At(r.pipefds, 2 * r.idx)
  ELSE r.in

\* What descriptor 1 refers to after the output branch (open succeeded).
ChildStdout(r) ==
  IF OpensOutput(r) THEN OUTFILE
  ELSE IF r.idx > 0 THEN At(r.pipefds, 2 * (r.idx - 1) + 1)
  ELSE r.out

\* Mutant of ChildCloses: only the two ends just duplicated are closed.
ChildClosesOwnEnds(r) ==
  { d \in {ChildStdin(r), ChildStdout(r)} : d[1] \in {"r", "w"} }

\* for (i = 0; i < 2 * (num_cmds - 1); i++) close(pipefds[i]);
ChildCloses(r) == Slots(r.pipefds, 2 * (r.n - 1))

\* A terminated child: every descriptor is closed, its memory is gone;
\* what the process table keeps is its identity and its exit status.
Zombie(r, status) ==
  [NoProc EXCEPT !.st = "zombie", !.job = r.job,
                 !.background = r.background, !.status = status]

\* exit(1) in the child.
ChildExit1(r) == Zombie(r, 1)

\* execvp succeeded: the program image, and with it the child's copy of
\* cmd, is replaced; descriptors and an ignored SIGINT are kept.
Execed(r) ==
  [r EXCEPT !.st = "exec", !.rstdin = NULL, !.rstdout = NULL,
            !.pipefds = <<>>]

\* The child from fork's return to execvp or exit(1); inOk / outOk are
\* whether open() of the redirection file succeeds.
ChildRun(r, inOk, outOk) ==
  IF OpensInput(r) /\ ~inOk THEN ChildExit1(r)
  ELSE IF OpensOutput(r) /\ ~outOk THEN ChildExit1(r)
  ELSE LET wired == [r EXCEPT !.sigint = ChildSigint(r),
                              !.in = ChildStdin(r),
                              !.out = ChildStdout(r),
                              !.fds = r.fds \ ChildCloses(r)]
       IN IF r.argv[1] \in Executables
          THEN Execed(wired)
          ELSE ChildExit1(wired)

ChildSetup(p) ==
  /\ pc # "exited"
  /\ proc[p].st = "forked"
  /\ \E inOk \in BOOLEAN, outOk \in BOOLEAN :
       /\ (~inOk => OpensInput(proc[p]))
       /\ (~outOk => OpensOutput(proc[p]) /\ inOk)
       /\ proc' = [proc EXCEPT ![p] = ChildRun(proc[p], inOk, outOk)]
  /\ pending' = (pending \/ proc'[p].st = "zombie")
  /\ UNCHANGED <<pc, shSigint, shSigchld, locals, shellFds, cwd,
                 exitStatus, err, ret>>
  /\ reaps' = {}
  /\ UNCHANGED <<nextPid, line>>

\* The program the child runs terminates by itself.
ChildExit(p) ==
  /\ pc # "exited"
  /\ proc[p].st = "exec"
  /\ proc' = [proc EXCEPT ![p] = Zombie(proc[p], 0)]
  /\ pending' = TRUE
  /\ UNCHANGED <<pc, shSigint, shSigchld, locals, shellFds, cwd,
                 exitStatus, err, ret>>
  /\ reaps' = {}
  /\ UNCHANGED <<nextPid, line>>

\* ----------------------------------------------------------------- SIGINT
KilledBySigint == 128 + 2

\* The running children SIGINT terminates: those with default disposition.
SigintVictims ==
  { p \in Pids : proc[p].st \in {"forked", "exec"}
                 /\ proc[p].sigint = "default" }

\* Ctrl-C: the terminal sends SIGINT to the shell and all its children.
\* The shell ignores it; the children with default disposition die.
SigInt ==
  /\ ShellRuns /\ shSigint = "ignore"
  /\ SigintVictims # {}
  /\ proc' = [p \in Pids |->
                IF p \in SigintVictims
                THEN Zombie(proc[p], KilledBySigint)
                ELSE proc[p]]
  /\ pending' = TRUE
  /\ UNCHANGED <<pc, shSigint, shSigchld, locals, shellFds, cwd,
                 exitStatus, err, ret>>
  /\ reaps' = {}
  /\ UNCHANGED <<nextPid, line>>

\* Ctrl-C while the shell still has the default disposition kills it.
SigIntShell ==
  /\ pc # "exited" /\ shSigint = "default"
  /\ pc' = "exited"
  /\ exitStatus' = KilledBySigint
  /\ UNCHANGED <<pending, shSigint, shSigchld, locals, shellFds, proc,
                 cwd, err, ret>>
  /\ reaps' = {}
  /\ UNCHANGED <<nextPid, line>>

\* ------------------------------------------------------------------- spec
Next ==
  \/ MainSignals
  \/ Drain
  \/ ReadEOF
  \/ ReadBlank
  \/ ReadCommand
  \/ CreatePipes
  \/ PipeFail
  \/ Fork
  \/ ForkFail
  \/ CloseParent
  \/ WaitReap
  \/ WaitNoChild
  \/ sigchld_handler
  \/ \E p \in Pids : ChildSetup(p)
  \/ \E p \in Pids : ChildExit(p)
  \/ SigInt
  \/ SigIntShell

Spec == Init /\ [][Next]_vars

\* The child identities the shell keeps: none.  execute_pipeline compares
\* the pid fork() returns with 0 and drops it, neither wait(NULL) nor
\* waitpid(-1, NULL, WNOHANG) asks which child was reaped, and nothing is
\* printed when a child is reaped.
JobSet == {}

\* ----------------------------------------------------------------- claims
\* The children that have not terminated.
Alive == { p \in Pids : proc[p].st \in {"forked", "exec"} }

\* The children forked for the pipeline execute_cmd is running.
Current == { p \in Pids : job # 0 /\ proc[p].st # "none" /\ proc[p].job = job }

\* The number of a stage as typed, 0 for the first: the Pgm list is reversed.
Stage(r) == r.n - 1 - r.idx

IsPipeEnd(d) == d[1] \in {"r", "w"}

\* The live processes that hold the descriptor d.
Holders(d) == { p \in Alive : d \in Holds(proc[p]) }

\* C1: (claim as stated) the shell is back at the prompt loop only when
\* every child forked for a foreground pipeline has terminated and been
\* reaped.
C1_ForegroundReapedBeforePrompt ==
  pc \in {"drain", "readline"} =>
    \A p \in Pids : proc[p].st \in {"forked", "exec", "zombie"}
                      => proc[p].background

\* C2: (claim as stated) the foreground wait consumes only terminations of
\* the pipeline it waits for, and the SIGCHLD handler never consumes the
\* termination of a child forked for a foreground pipeline.
C2_WaitConsumesOwnPipelineOnly ==
  \A e \in reaps :
    /\ e.by = "wait" => (e.current /\ ~e.background)
    /\ e.by = "handler" => e.background

\* C3: (claim as stated) the shell never blocks on a background process: a
\* background command is never waited for, and in the foreground wait loop,
\* once every process forked for the pipeline waited for has terminated,
\* wait() can return.
C3_NeverBlocksOnBackground ==
  pc = "wait" =>
    /\ ~cmd.background
    /\ (job # 0 /\ Current \cap Alive = {})
         => (Zombies # {} \/ Unreaped = {})

\* C4: (claim as stated) a terminated child of a background pipeline is
\* reaped by the non-blocking drain (the SIGCHLD handler or the drain
\* before the prompt), not by a foreground wait.
C4_BackgroundReapedByDrain ==
  \A e \in reaps : e.background => e.by \in {"handler", "drain"}

\* Supporting check for C4 under fair scheduling: the kernel delivers a
\* pending SIGCHLD, so while the shell exists no zombie stays for ever.
FairSpec == Spec /\ WF_vars(sigchld_handler)
ZombiesAreReaped ==
  \A p \in Pids :
    (proc[p].st = "zombie") ~> (proc[p].st # "zombie" \/ pc = "exited")

\* C5: once execute_pipeline has been entered, exactly num_cmds - 1 pipes
\* exist, all distinct; every child is born holding all of them; and the
\* shell's array is still the one every child of the pipeline was forked
\* with, so no pipe is created after a fork or inside a child.
C5_PipesCreatedBeforeForks ==
  /\ pc \in {"spawn", "close", "wait"} =>
       /\ npipes = num_cmds - 1
       /\ Len(pipefds) = 2 * (num_cmds - 1)
       /\ Cardinality(Slots(pipefds, Len(pipefds))) = 2 * (num_cmds - 1)
       /\ \A p \in Current :
            proc[p].st = "forked" => proc[p].pipefds = pipefds
  /\ \A p \in Pids :
       proc[p].st = "forked" =>
         /\ Len(proc[p].pipefds) = 2 * (proc[p].n - 1)
         /\ proc[p].fds = Slots(proc[p].pipefds, 2 * (proc[p].n - 1))

\* C5 witness: a three-stage pipeline whose two pipes exist while no stage
\* has been forked yet.
C5_Witness ==
  /\ pc = "spawn" /\ num_cmds = 3 /\ cmd_idx = 2
  /\ npipes = 2 /\ Len(pipefds) = 4

\* C6: a child that has reached exec holds no original pipe descriptor,
\* only its stdin and stdout; the shell holds no pipe descriptor when it
\* waits or is back in main; and a pipe end that neither the shell nor a
\* child still before exec holds is held by at most one process, as the
\* stdout of the writer (write end) or the stdin of the reader (read end).
C6_NoDescriptorLeak ==
  /\ \A p \in Pids : proc[p].st = "exec" => proc[p].fds = {}
  /\ pc \in {"wait", "drain", "readline"} => shellFds = {}
  /\ \A p \in Alive : \A d \in Holds(proc[p]) :
       (/\ IsPipeEnd(d)
        /\ d \notin shellFds
        /\ \A q \in Holders(d) : proc[q].st = "exec")
       => /\ Holders(d) = {p}
          /\ d[1] = "w" => proc[p].out = d /\ proc[p].in # d
          /\ d[1] = "r" => proc[p].in = d /\ proc[p].out # d

\* C6 witness: all three stages of a pipeline run their programs, the
\* middle one between two pipes, while the shell waits.
C6_Witness ==
  /\ pc = "wait" /\ num_cmds = 3
  /\ Cardinality({ p \in Current : proc[p].st = "exec" }) = 3
  /\ \E p \in Current : IsPipeEnd(proc[p].in) /\ IsPipeEnd(proc[p].out)

\* C7: among the running stages of one pipeline, every stage but the first
\* typed reads stdin from the read end of a pipe, every stage but the last
\* writes stdout to the write end of a pipe, the pipe a stage writes is the
\* pipe its successor reads, and no pipe end is bound in two stages.
C7_AdjacentStagesShareAPipe ==
  \A p \in Pids : proc[p].st = "exec" =>
    LET r == proc[p] IN
    /\ Stage(r) > 0 => r.in[1] = "r"
    /\ Stage(r) < r.n - 1 => r.out[1] = "w"
    /\ \A q \in Pids :
         (/\ proc[q].st = "exec" /\ proc[q].job = r.job
          /\ Stage(proc[q]) = Stage(r) + 1)
         => /\ r.out[1] = "w" /\ proc[q].in[1] = "r"
            /\ r.out[2] = proc[q].in[2]
    /\ \A q \in Pids \ {p} :
         proc[q].st = "exec" =>
           /\ IsPipeEnd(r.in) => r.in \notin {proc[q].in, proc[q].out}
           /\ IsPipeEnd(r.out) => r.out \notin {proc[q].in, proc[q].out}

\* C7 witness: the three stages of one pipeline all run their programs.
C7_Witness ==
  \E p, q, t \in Pids :
    /\ proc[p].st = "exec" /\ proc[q].st = "exec" /\ proc[t].st = "exec"
    /\ proc[p].job = proc[q].job /\ proc[q].job = proc[t].job
    /\ proc[p].n = 3
    /\ Stage(proc[p]) = 0 /\ Stage(proc[q]) = 1 /\ Stage(proc[t]) = 2

\* C8: for the running stages of the pipeline being executed: the first
\* stage typed has the input file on stdin exactly when cmd->rstdin is set,
\* the last has the output file on stdout exactly when cmd->rstdout is set,
\* without redirection these two ends keep the inherited terminal, no other
\* end of any stage is a redirection file, and with one stage no pipe
\* exists.
C8_RedirectionAtOpenEndsOnly ==
  \A p \in Current : proc[p].st = "exec" =>
    LET r == proc[p] IN
    /\ Stage(r) = 0 =>
         r.in = (IF cmd.rstdin # NULL THEN INFILE ELSE TTY)
    /\ Stage(r) = r.n - 1 =>
         r.out = (IF cmd.rstdout # NULL THEN OUTFILE ELSE TTY)
    /\ Stage(r) > 0 => r.in \notin {INFILE, OUTFILE, TTY}
    /\ Stage(r) < r.n - 1 => r.out \notin {INFILE, OUTFILE, TTY}
    /\ r.in # OUTFILE /\ r.out # INFILE
    /\ r.n = 1 => pipefds = <<>> /\ shellFds = {}

\* C8 witness: a three-stage pipeline with both redirections, its interior
\* stage running between two pipes and both end stages on their files.
C8_Witness ==
  /\ cmd.rstdin # NULL /\ cmd.rstdout # NULL /\ num_cmds = 3
  /\ \E p, q, t \in Current :
       /\ proc[p].st = "exec" /\ proc[q].st = "exec" /\ proc[t].st = "exec"
       /\ Stage(proc[p]) = 0 /\ proc[p].in = INFILE
       /\ Stage(proc[q]) = 1 /\ IsPipeEnd(proc[q].in)
       /\ Stage(proc[t]) = 2 /\ proc[t].out = OUTFILE

\* C9: (claim as stated) built-ins are intercepted before any process is
\* spawned: no child process is ever forked to execute a stage whose
\* program name is cd or exit.
C9_BuiltinsNeverForked ==
  \A p \in Pids :
    proc[p].st = "forked" => proc[p].argv[1] \notin {"cd", "exit"}

\* C10: (claim as stated) after a built-in usage error (check_built_ins
\* returned -1) the error is reported and nothing else happens: the shell
\* goes back to the prompt without creating a pipe or forking a child, does
\* not exit and keeps its working directory.
C10_UsageErrorTakesNoAction ==
  ret = -1 =>
    /\ err \in {"cd: too many arguments", "exit: too many arguments"}
    /\ pc \in {"drain", "readline"}

\* The user's home directory, where the shell is started.
Home == "/home"

\* The head of the Pgm list of the line read: the last stage typed.
LineHead == line.pgm[1]

\* C11: (claim as stated) when check_built_ins has run cd with at most one
\* argument and chdir did not fail, the working directory is the home
\* directory for cd without argument and the argument otherwise.
C11_CdResolvesTarget ==
  (pc = "drain" /\ LineHead[1] = "cd" /\ Len(LineHead) <= 2 /\ err # "cd: perror")
    => cwd = (IF Len(LineHead) = 1 THEN Home ELSE LineHead[2])

\* C12: a cd whose chdir() fails is a step from the prompt that reports the
\* error, keeps the working directory, forks nothing, creates no pipe and
\* returns to the top of the loop, where the drain and the next readline
\* follow; and from any prompt the line  exit  ends the shell with status 0.
C12_FailedCdIsIsolated ==
  /\ [](err = "cd: perror" =>
          /\ pc = "drain" /\ ret = 0 /\ cmd = NoCmd /\ job = 0
          /\ ENABLED Drain)
  /\ [][(pc = "readline" /\ err' = "cd: perror") =>
          /\ cwd' = cwd /\ proc' = proc /\ nextPid' = nextPid
          /\ shellFds' = shellFds /\ pipefds' = pipefds]_vars
  /\ [][(pc = "readline" /\ line'.pgm = << <<"exit">> >>) =>
          (pc' = "exited" /\ exitStatus' = 0)]_vars

\* C12 witness: cd /tmp has failed in /home; the shell is at the top of its
\* loop, still in /home, with a background child running.
C12_Witness ==
  /\ pc = "drain" /\ err = "cd: perror" /\ LineHead = <<"cd", "/tmp">>
  /\ cwd = Home
  /\ \E p \in Pids : proc[p].st = "exec" /\ proc[p].background

\* C13: (claim as stated) no error ends the shell: leaving aside a death by
\* signal, the shell process has terminated only with status 0, and only
\* at end of input or through the line  exit.
C13_OnlyExitEndsTheShell ==
  (pc = "exited" /\ exitStatus # KilledBySigint) =>
    /\ exitStatus = 0
    /\ (line = NoCmd \/ LineHead = <<"exit">>)

\* C14: (claim as stated) once a fork() has failed for the line being
\* executed, no further child is created.
C14_ForkFailureAbortsSpawning ==
  [][err = "Fork failed: perror" =>
       \A p \in Pids : proc[p].st = "none" => proc'[p].st = "none"]_vars

\* The child p, whose program exists, leaves the code between fork and
\* execvp through exit(1): an open() of its redirection file has failed.
OpenFailsIn(p) ==
  /\ proc[p].st = "forked"
  /\ OpensInput(proc[p]) \/ OpensOutput(proc[p])
  /\ proc[p].argv[1] \in Executables
  /\ proc'[p].st = "zombie" /\ proc'[p].status = 1

\* C15: (claim as stated) a redirection file that cannot be opened is
\* found before the stage is spawned: no child process ever meets the
\* failing open(), and no stage of its pipeline runs a program.
C15_OpenFailureBeforeSpawn ==
  [][\A p \in Pids : OpenFailsIn(p) =>
       \A q \in Pids : proc[q].job = proc[p].job
                          => proc[q].st \notin {"forked", "exec"}]_vars

\* C16: from the first prompt on, wherever the shell is (reading a line,
\* creating pipes, forking, closing, waiting), its SIGINT disposition is
\* ignore, and a shell that ignores SIGINT has not been killed by it.
C16_ShellIgnoresSigint ==
  /\ ShellRuns => shSigint = "ignore"
  /\ (pc = "exited" /\ shSigint = "ignore") => exitStatus # KilledBySigint

\* C16 witness: SIGINT has killed a child of the foreground pipeline while
\* the shell, ignoring it, is still in its wait loop.
C16_Witness ==
  /\ pc = "wait" /\ shSigint = "ignore"
  /\ \E p \in Current :
       proc[p].st = "zombie" /\ proc[p].status = KilledBySigint

\* C17: a child that runs its program has the default SIGINT disposition
\* if it was forked for a foreground command and ignores SIGINT if it was
\* forked for a background command; and every child SIGINT has killed was
\* forked for a foreground command.
C17_SigintReachesForegroundOnly ==
  \A p \in Pids :
    /\ proc[p].st = "exec" =>
         proc[p].sigint = (IF proc[p].background THEN "ignore" ELSE "default")
    /\ (proc[p].st = "zombie" /\ proc[p].status = KilledBySigint)
         => ~proc[p].background

\* C17 witness: SIGINT has killed a foreground child while a background
\* child goes on running its program.
C17_Witness ==
  /\ \E p \in Current :
       /\ proc[p].st = "zombie" /\ proc[p].status = KilledBySigint
       /\ ~proc[p].background
  /\ \E q \in Pids :
       proc[q].st = "exec" /\ proc[q].background /\ proc[q].sigint = "ignore"

\* C18: (claim as stated) the identities the shell keeps are, at every
\* moment, those of the background children forked and not yet reaped.
C18_JobSetTracksBackground ==
  JobSet = { p \in Unreaped : proc[p].background }

\* The line read has a built-in name with valid arity as its last stage.
ValidBuiltinHead(c) ==
  \/ c.pgm[1][1] = "cd" /\ Len(c.pgm[1]) <= 2
  \/ c.pgm[1] = <<"exit">>

\* C19: only the last stage typed decides.  With cd (at most one argument)
\* there, also behind other stages, check_built_ins returns 0 and the shell
\* is back at the top of its loop without a pipe or a pipeline; with exit
\* there the shell has exited with status 0; the step that reads such a
\* line forks nothing and opens nothing.  With any other program there,
\* also when an earlier stage is named cd or exit, check_built_ins returns
\* 1, the whole line is run as a pipeline, and the step that reads it
\* neither changes the working directory nor ends the shell.
C19_OnlyLastStageIsBuiltin ==
  /\ []((line # NoCmd /\ LineHead[1] = "cd" /\ Len(LineHead) <= 2) =>
          /\ ret = 0 /\ pc = "drain" /\ cmd = NoCmd /\ job = 0
          /\ pipefds = <<>> /\ shellFds = {})
  /\ []((line # NoCmd /\ LineHead = <<"exit">>) =>
          /\ pc = "exited" /\ exitStatus = 0 /\ cmd = NoCmd
          /\ shellFds = {})
  /\ []((line # NoCmd /\ LineHead[1] \notin {"cd", "exit"}) =>
          /\ ret = 1
          /\ pc \in {"pipes", "spawn", "close", "wait"} => cmd = line)
  /\ [][(pc = "readline" /\ line' # NoCmd /\ ValidBuiltinHead(line')) =>
          (proc' = proc /\ nextPid' = nextPid /\ shellFds' = shellFds)]_vars
  /\ [][(pc = "readline" /\ line' # NoCmd
           /\ line'.pgm[1][1] \notin {"cd", "exit"}) =>
          (cwd' = cwd /\ pc' \in {"pipes", "spawn"})]_vars

\* C19 witness:  ls | cd /tmp  has moved the shell to /tmp and no fork()
\* has ever been called.
C19_Witness ==
  /\ pc = "drain" /\ line.pgm = << <<"cd", "/tmp">>, <<"ls">> >>
  /\ cwd = "/tmp" /\ nextPid = 1 /\ shellFds = {}

\* C20: a failed pipe() is the one way the shell exits with status 1, and
\* it does so at once: no child of the pipeline has been forked, fewer than
\* num_cmds - 1 pipes exist, and the step reaps and forks nothing, so the
\* children that run are left behind.
C20_PipeFailureExitsShell ==
  /\ [](err = "pipe: perror" =>
          /\ pc = "exited" /\ exitStatus = 1
          /\ job = 0 /\ Current = {} /\ cmd_idx = num_cmds - 1
          /\ npipes < num_cmds - 1)
  /\ []((pc = "exited" /\ exitStatus = 1) => err = "pipe: perror")
  /\ [][(pc # "exited" /\ pc' = "exited" /\ exitStatus' = 1) =>
          (proc' = proc /\ nextPid' = nextPid)]_vars

\* C20 witness: the shell has exited with status 1 on the pipe() of a
\* two-stage pipeline, while a background child still runs its program.
C20_Witness ==
  /\ pc = "exited" /\ exitStatus = 1 /\ num_cmds = 2 /\ npipes = 0
  /\ \E p \in Pids : proc[p].st = "exec" /\ proc[p].background

====
